---- MODULE Spec2Model ----
(***************************************************************************)
(* automation_hub_check_collections_update.py as a state machine.         *)
(*                                                                         *)
(* The script is one sequential run: it loads an optional configuration,  *)
(* walks the two collection indexes page by page through query_api, looks *)
(* up the highest version of every collection the configuration lets      *)
(* through, and prints one line per collection updated inside the time    *)
(* window.  pc is the position of the run in the script; every action is  *)
(* one statement group of the main loop (lines 201-253).                  *)
(*                                                                         *)
(* The remote API is the environment: the outcome of every HTTP call (a   *)
(* transport error, or a status code with a body that is JSON or not) and *)
(* the content of every JSON body are drawn from small sets.  The `data`  *)
(* array of a page is kept as its length; the element the for statement   *)
(* binds to `collection` is drawn when the loop reaches it, which is when *)
(* the program first reads it.                                             *)
(***************************************************************************)
EXTENDS Integers, Sequences, FiniteSets, TLC

VARIABLES
    cfg,            \* yaml.safe_load result, or None (lines 180-185)
    now,            \* what datetime.now() reads during the run
    pc,             \* position of the run in the script
    exc,            \* the exception that ended the run, PyNone while it runs
    fi,             \* position of `for collection_repo, initial_href in hrefs.items()`
    href,           \* location of the next index request (lines 209, 251)
    result,         \* parsed body of the last index page (line 212)
    ci,             \* position of `for collection in result['data']`
    collection,     \* the element of result['data'] the loop is at
    version_info,   \* parsed body of the highest_version lookup (line 235)
    sent,           \* the HTTP request the last step made and how it ended, if it made one
    printed,        \* the line the last step wrote to stdout, if it wrote one
    pagelog,        \* requests and lines since the last index request, in order
    request,        \* gateway: the arguments of one query_api call
    wire,           \* gateway: what the HTTP layer answers to it
    returned        \* gateway: what query_api gave back

vars == <<cfg, now, pc, exc, fi, href, result, ci, collection, version_info,
          sent, printed, pagelog, request, wire, returned>>

gwVars == <<request, wire, returned>>

-----------------------------------------------------------------------------
(* Bounds of the model *)

MaxItems == 2       \* longest `data` array of a page
MaxPages == 2       \* distinct index locations per repository
TicksPerDay == 2    \* resolution of a timestamp inside one day

(* Program constants *)

timedelta == 7      \* --timedelta default

-----------------------------------------------------------------------------
(* Python values *)

PyNone == "None"

\* The repositories visited in the other order.
ReposReversed == <<"certified", "validated">>

\* The hrefs dict, in insertion order.
Repos == <<"validated", "certified">>

hrefs == [r \in {"validated", "certified"} |->
            IF r = "validated"
            THEN "/api/automation-hub/v3/plugin/ansible/content/validated/collections/index/?limit=100"
            ELSE "/api/automation-hub/v3/plugin/ansible/content/published/collections/index/?limit=100"]

\* Index locations the API may link to from a page of repository r.
PageHrefs(r) == {hrefs[r]} \cup
                {hrefs[r] \o "&offset=" \o ToString(100 * k) : k \in 1..(MaxPages - 1)}

\* A timestamp string '%Y-%m-%dT%H:%M:%S.%fZ' is a day and the time inside it.
Stamp(d) == [day |-> d \div TicksPerDay, tick |-> d % TicksPerDay]

\* datetime.strptime(s, '%Y-%m-%dT%H:%M:%S.%fZ'): a naive datetime, here the
\* number of ticks since day 0.
strptime(s) == s.day * TicksPerDay + s.tick

DefaultDateFormat == "%Y-%m-%d"
CustomDateFormat == "%d.%m.%Y %H:%M"

\* datetime.strftime(fmt): the default format drops the time of day.
strftime(dt, fmt) ==
    IF fmt = CustomDateFormat
    THEN [fmt |-> fmt, day |-> dt \div TicksPerDay, tick |-> dt % TicksPerDay]
    ELSE [fmt |-> fmt, day |-> dt \div TicksPerDay, tick |-> 0]

\* datetime.now() - timedelta(days=args.timedelta)
Cutoff(n) == n - timedelta * TicksPerDay

-----------------------------------------------------------------------------
(* The configuration file *)

\* A loaded mapping: the keys it has and their values (empty where absent).
ConfigDict(keys, repositories, collections, namespaces, fmt) ==
    [none |-> FALSE, keys |-> keys,
     repositories |-> repositories, collections |-> collections,
     namespaces |-> namespaces, output_date_format |-> fmt]

\* cfg = None: no configuration file (line 185), or an empty one.
ConfigNone == [none |-> TRUE, keys |-> {},
               repositories |-> {}, collections |-> {},
               namespaces |-> {}, output_date_format |-> PyNone]

RepositoryValues == {{}, {"validated"}, {"certified"}}
CollectionValues == {{}, {"foo"}, {"redhat.foo"}}
NamespaceValues == {{}, {"redhat"}}

ConfigKeys == {"repositories", "collections", "namespaces", "output_date_format"}

AllConfigs ==
    {ConfigNone} \cup
    {ConfigDict(keys, r, c, n, f) :
        keys \in SUBSET ConfigKeys,
        r \in RepositoryValues, c \in CollectionValues, n \in NamespaceValues,
        f \in {PyNone, CustomDateFormat}}

\* Only mappings whose absent keys carry no value are configurations.
WellFormed(c) ==
    /\ ("repositories" \notin c.keys => c.repositories = {})
    /\ ("collections" \notin c.keys => c.collections = {})
    /\ ("namespaces" \notin c.keys => c.namespaces = {})
    /\ ("output_date_format" \in c.keys <=> c.output_date_format # PyNone)

\* bool(cfg): None and the empty mapping are false.
Truthy(c) == ~c.none /\ c.keys # {}

\* The configuration files of the model: none, every mapping over the two
\* per-collection keys, every mapping over the other two keys, and the
\* mappings that set all four keys to a non-empty value.
Configs ==
    {c \in AllConfigs :
        /\ WellFormed(c)
        /\ \/ c.none
           \/ c.keys \subseteq {"collections", "namespaces"}
           \/ c.keys \subseteq {"repositories", "output_date_format"}
           \/ /\ c.keys = ConfigKeys
              /\ {} \notin {c.repositories, c.collections, c.namespaces}}

-----------------------------------------------------------------------------
(* What the API serves *)

Names == {"foo", "bar"}
Namespaces == {"redhat", "community"}
Versions == {"1.2.0", "1.3.0"}

\* highest_version of an index entry of repository r: where the version
\* lives, and its number.
HighestVersion(r, namespace, name, v) ==
    [href |-> "/" \o r \o "/" \o namespace \o "/" \o name \o "/versions/" \o v \o "/",
     version |-> v]

\* Entries of `data` as the run started at n can meet them: updated a day
\* before or a day after the cutoff.
Collections(n, r) ==
    {[name |-> name, namespace |-> namespace, updated_at |-> u,
      highest_version |-> HighestVersion(r, namespace, name, v)] :
        name \in Names, namespace \in Namespaces, v \in Versions,
        u \in {Stamp(Cutoff(n) - TicksPerDay), Stamp(Cutoff(n) + TicksPerDay)}}

NoCollection == [name |-> PyNone, namespace |-> PyNone, updated_at |-> Stamp(0),
                 highest_version |-> [href |-> PyNone, version |-> PyNone]]

\* Bodies of a highest_version lookup: updated just before, at, or just after
\* the cutoff.
VersionInfos(n) ==
    [version : Versions,
     updated_at : {Stamp(Cutoff(n) - 1), Stamp(Cutoff(n)), Stamp(Cutoff(n) + 1)}]

NoVersionInfo == [version |-> PyNone, updated_at |-> Stamp(0)]

\* links of a page: `next` is missing, null, or a location.
Links(r) == {[has_next |-> FALSE, next |-> PyNone], [has_next |-> TRUE, next |-> PyNone]}
            \cup {[has_next |-> TRUE, next |-> h] : h \in PageHrefs(r)}

\* Bodies of an index request for repository r.
Pages(r) == [len : 0..MaxItems, links : Links(r)]

NoPage == [len |-> 0, links |-> [has_next |-> FALSE, next |-> PyNone]]

\* What the HTTP layer does with one request: raises err, or completes
\* with a status code and a body that is JSON or is not.
TransportErrors == {"ConnectionError", "ReadTimeout", "Timeout", "RequestException"}
StatusCodes == {200, 500}

Wires == [err : TransportErrors, status : {0}, json : {FALSE}]
         \cup [err : {PyNone}, status : StatusCodes, json : BOOLEAN]

\* The answer w carrying the body b.
Response(w, b) == [err |-> w.err, status |-> w.status, json |-> w.json, body |-> b]

-----------------------------------------------------------------------------
(* query_api, lines 49-150 *)

HttpRequestType == {"GET", "POST", "PUT", "DELETE"}

Raise(e) == [raised |-> e]
Return(value) == [raised |-> PyNone, value |-> value]

\* query_api with the status checked before the body is returned.
query_api_status_first(http_request_type, location, w) ==
    IF http_request_type = PyNone THEN Raise("ValueError")
    ELSE IF http_request_type \notin HttpRequestType THEN Raise("TypeError")
    ELSE IF location = "" \/ location = PyNone THEN Raise("ValueError")
    ELSE IF w.err # PyNone THEN Raise(w.err)
    ELSE IF w.status >= 400 THEN Raise("HTTPError")
    ELSE IF ~w.json THEN Raise("RequestException")
    ELSE Return(w.body)

\* The outcome of query_api(http_request_type, location) when the HTTP layer
\* answers w: the exception it raises, or that it returns response.json().
\* The body is returned at line 123, before raise_for_status (line 124) and
\* the response.ok test (line 145) can run.  A body that is not JSON makes
\* response.json() raise requests' JSONDecodeError, a RequestException, which
\* line 140 wraps.
query_api(http_request_type, location, w) ==
    IF http_request_type = PyNone THEN Raise("ValueError")
    ELSE IF http_request_type \notin HttpRequestType THEN Raise("TypeError")
    ELSE IF location = "" \/ location = PyNone THEN Raise("ValueError")
    ELSE IF w.err # PyNone THEN Raise(w.err)
    ELSE IF ~w.json THEN Raise("RequestException")
    ELSE Return(w.body)

-----------------------------------------------------------------------------
(* The conditions of the main loop *)

\* The repository test without `and cfg['repositories']`.
SkipRepositoryOfEmptyList(c, collection_repo) ==
    /\ Truthy(c)
    /\ "repositories" \in c.keys
    /\ collection_repo \notin c.repositories

\* Lines 203-206: the repository is left out.
SkipRepository(c, collection_repo) ==
    /\ Truthy(c)
    /\ "repositories" \in c.keys
    /\ c.repositories # {}
    /\ collection_repo \notin c.repositories

collection_fqcn(col) == col.namespace \o "." \o col.name

\* The collection test without the FQCN.
SkipCollectionByNameOnly(c, col) ==
    /\ Truthy(c)
    /\ "collections" \in c.keys
    /\ c.collections # {}
    /\ col.name \notin c.collections

\* Lines 221-225: the collection is left out.
SkipCollection(c, col) ==
    /\ Truthy(c)
    /\ "collections" \in c.keys
    /\ c.collections # {}
    /\ col.name \notin c.collections
    /\ collection_fqcn(col) \notin c.collections

\* Lines 229-232: the namespace is left out.
SkipNamespace(c, col) ==
    /\ Truthy(c)
    /\ "namespaces" \in c.keys
    /\ c.namespaces # {}
    /\ col.namespace \notin c.namespaces

\* The time frame test with < for <=.
OutsideTimeFrameExclusive(last_update, n) ==
    strptime(last_update) < n - timedelta * TicksPerDay

\* Line 238: the update is outside the time frame.
OutsideTimeFrame(last_update, n) ==
    strptime(last_update) <= n - timedelta * TicksPerDay

\* cfg.get('output_date_format', '%Y-%m-%d'), for a cfg that is a mapping.
output_date_format(c) ==
    IF "output_date_format" \in c.keys THEN c.output_date_format ELSE DefaultDateFormat

\* The printed line with the date of the lookup.
LineWithLookupDate(collection_repo, col, info, c) ==
    [repo |-> collection_repo,
     fqcn |-> col.namespace \o "." \o col.name,
     version |-> col.highest_version.version,
     date |-> strftime(strptime(info.updated_at), output_date_format(c))]

\* Lines 241-244: the printed line.
Line(collection_repo, col, info, c) ==
    [repo |-> collection_repo,
     fqcn |-> col.namespace \o "." \o col.name,
     version |-> col.highest_version.version,
     date |-> strftime(strptime(col.updated_at), output_date_format(c))]

NoLine == [repo |-> PyNone, fqcn |-> PyNone, version |-> PyNone,
           date |-> [fmt |-> PyNone, day |-> 0, tick |-> 0]]

\* Line 247: pagination is over.
NoNextLink(links) == links.next = PyNone

\* An entry of pagelog: what happened, for which element of `data`, on which page.
Event(kind, idx, page) == [kind |-> kind, idx |-> idx, page |-> page]

Sent(location, r) == [location |-> location, raised |-> r.raised]
NotSent == [location |-> PyNone, raised |-> PyNone]

-----------------------------------------------------------------------------
(* The run, lines 180-253 *)

collection_repo == IF fi <= Len(Repos) THEN Repos[fi] ELSE PyNone

Clock == {10 * TicksPerDay + 1}

NoRequest == [http_request_type |-> PyNone, location |-> PyNone]
NoWire == [err |-> PyNone, status |-> 0, json |-> FALSE, body |-> PyNone]
Pending == [raised |-> "pending"]

\* An exception of query_api swallowed, the statement tried again.
Retried(position) == position

\* Where an exception of query_api takes the run: nothing in the loop
\* catches it, so the interpreter ends the run.
Uncaught(position) == "failed"

\* The state after configuration loading (lines 180-198), before the loop.
Init ==
    /\ cfg \in Configs
    /\ now \in Clock
    /\ pc = "repo"
    /\ exc = PyNone
    /\ fi = 1
    /\ href = PyNone
    /\ result = NoPage
    /\ ci = 0
    /\ collection = NoCollection
    /\ version_info = NoVersionInfo
    /\ sent = NotSent
    /\ printed = NoLine
    /\ pagelog = <<>>
    /\ request = NoRequest
    /\ wire = NoWire
    /\ returned = Pending

\* Lines 201-210: the next repository; skipped if the configuration leaves it out.
ForRepo ==
    /\ pc = "repo"
    /\ fi <= Len(Repos)
    /\ IF SkipRepository(cfg, Repos[fi])
       THEN /\ fi' = fi + 1
            /\ UNCHANGED <<pc, href, pagelog>>
       ELSE /\ href' = hrefs[Repos[fi]]
            /\ pc' = "fetch"
            /\ pagelog' = <<>>
            /\ UNCHANGED fi
    /\ sent' = NotSent
    /\ printed' = NoLine
    /\ UNCHANGED <<cfg, now, exc, result, ci, collection, version_info, gwVars>>

\* Line 253: both repositories are done.
Exit ==
    /\ pc = "repo"
    /\ fi > Len(Repos)
    /\ pc' = "done"
    /\ sent' = NotSent
    /\ printed' = NoLine
    /\ UNCHANGED <<cfg, now, exc, fi, href, result, ci, collection, version_info,
                   pagelog, gwVars>>

\* Line 212: result = query_api(GET, href).
FetchPage ==
    /\ pc = "fetch"
    /\ \E w \in Wires, page \in Pages(collection_repo) :
         LET r == query_api("GET", href, Response(w, page)) IN
         /\ sent' = Sent(href, r)
         /\ IF r.raised # PyNone
            THEN /\ pc' = Uncaught("fetch")
                 /\ exc' = r.raised
                 /\ UNCHANGED <<result, ci>>
            ELSE /\ result' = r.value
                 /\ ci' = 1
                 /\ pc' = "item"
                 /\ UNCHANGED exc
    /\ pagelog' = <<Event("index", 0, href)>>
    /\ printed' = NoLine
    /\ UNCHANGED <<cfg, now, fi, href, collection, version_info, gwVars>>

\* A loop that stays at its element.
Stay(i) == i

\* The for statement moving on to the next element of result['data'].
Advance(i) == i + 1

\* Lines 215-233: the next element of result['data'], and the two filters.
\* What the last iteration left in collection and last_update is never read
\* again; the model drops it here.
ForCollection ==
    /\ pc = "item"
    /\ IF ci > result.len
       THEN /\ pc' = "paginate"
            /\ collection' = NoCollection
            /\ UNCHANGED ci
       ELSE /\ \E col \in Collections(now, collection_repo) :
                 /\ collection' = col
                 /\ IF SkipCollection(cfg, col) \/ SkipNamespace(cfg, col)
                    THEN ci' = Advance(ci) /\ UNCHANGED pc
                    ELSE pc' = "lookup" /\ UNCHANGED ci
    /\ version_info' = NoVersionInfo
    /\ sent' = NotSent
    /\ printed' = NoLine
    /\ UNCHANGED <<cfg, now, exc, fi, href, result, pagelog, gwVars>>

\* Line 235: query_api(GET, collection['highest_version']['href']); last_update
\* is the updated_at of the body.
Lookup ==
    /\ pc = "lookup"
    /\ \E w \in Wires, info \in VersionInfos(now) :
         LET r == query_api("GET", collection.highest_version.href, Response(w, info)) IN
         /\ sent' = Sent(collection.highest_version.href, r)
         /\ IF r.raised # PyNone
            THEN /\ pc' = Uncaught("lookup")
                 /\ exc' = r.raised
                 /\ UNCHANGED version_info
            ELSE /\ version_info' = r.value
                 /\ pc' = "window"
                 /\ UNCHANGED exc
    /\ pagelog' = Append(pagelog, Event("lookup", ci, href))
    /\ printed' = NoLine
    /\ UNCHANGED <<cfg, now, fi, href, result, ci, collection, gwVars>>

\* Lines 238-239: updates outside the time frame are passed over.
CheckTimeFrame ==
    /\ pc = "window"
    /\ IF OutsideTimeFrame(version_info.updated_at, now)
       THEN ci' = Advance(ci) /\ pc' = "item"
       ELSE pc' = "print" /\ UNCHANGED ci
    /\ sent' = NotSent
    /\ printed' = NoLine
    /\ UNCHANGED <<cfg, now, exc, fi, href, result, collection, version_info,
                   pagelog, gwVars>>

\* Lines 241-244: format the date and write the line.  cfg.get on cfg = None
\* raises AttributeError, which ends the run.
Report ==
    /\ pc = "print"
    /\ IF cfg.none
       THEN /\ pc' = "crashed"
            /\ exc' = "AttributeError"
            /\ printed' = NoLine
            /\ UNCHANGED <<ci, pagelog>>
       ELSE /\ printed' = Line(collection_repo, collection, version_info, cfg)
            /\ pagelog' = Append(pagelog, Event("line", ci, href))
            /\ ci' = Advance(ci)
            /\ pc' = "item"
            /\ UNCHANGED exc
    /\ sent' = NotSent
    /\ UNCHANGED <<cfg, now, fi, href, result, collection, version_info, gwVars>>

\* Lines 247-251: stop at a null next link, else follow it.  A page without
\* the key raises KeyError, which ends the run.
Paginate ==
    /\ pc = "paginate"
    /\ IF ~result.links.has_next
       THEN /\ pc' = "crashed"
            /\ exc' = "KeyError"
            /\ UNCHANGED <<fi, href>>
       ELSE IF NoNextLink(result.links)
       THEN /\ fi' = fi + 1
            /\ pc' = "repo"
            /\ UNCHANGED <<exc, href>>
       ELSE /\ href' = result.links.next
            /\ pc' = "fetch"
            /\ UNCHANGED <<exc, fi>>
    /\ sent' = NotSent
    /\ printed' = NoLine
    /\ UNCHANGED <<cfg, now, result, ci, collection, version_info,
                   pagelog, gwVars>>

Next ==
    \/ ForRepo
    \/ Exit
    \/ FetchPage
    \/ ForCollection
    \/ Lookup
    \/ CheckTimeFrame
    \/ Report
    \/ Paginate

Spec == Init /\ [][Next]_vars

\* Runs without a configuration file or with one that sets every key.
LiveInit == Init /\ (cfg.none \/ cfg.keys = ConfigKeys)

\* The interpreter runs the script statement after statement, and every HTTP
\* call returns or raises: a run that can take a step takes one.
LiveSpec == LiveInit /\ [][Next]_vars /\ WF_vars(Next)

-----------------------------------------------------------------------------
(* query_api on its own: every argument and every answer of the HTTP layer *)

Requests ==
    [http_request_type : HttpRequestType \cup {PyNone, "get"},
     location : {"", hrefs["validated"], "/api/automation-hub/v3/"}]

Bodies == {"{}", "{\"errors\": []}"}

GatewayInit ==
    /\ cfg = ConfigNone
    /\ now \in Clock
    /\ pc = "repo"
    /\ exc = PyNone
    /\ fi = 1
    /\ href = PyNone
    /\ result = NoPage
    /\ ci = 0
    /\ collection = NoCollection
    /\ version_info = NoVersionInfo
    /\ sent = NotSent
    /\ printed = NoLine
    /\ pagelog = <<>>
    /\ request \in Requests
    /\ wire \in {Response(w, b) : w \in Wires, b \in Bodies}
    /\ returned = Pending

\* One call of query_api.
Call ==
    /\ returned = Pending
    /\ returned' = query_api(request.http_request_type, request.location, wire)
    /\ UNCHANGED <<cfg, now, pc, exc, fi, href, result, ci, collection, version_info,
                   sent, printed, pagelog, request, wire>>

GatewayNext == Call

GatewaySpec == GatewayInit /\ [][GatewayNext]_vars

-----------------------------------------------------------------------------
(* What the properties below speak of *)

RepoNames == {"validated", "certified"}

\* Every location a request for a repository can go to: its index pages and
\* the highest_version hrefs of its collections.
Locations ==
    [r \in RepoNames |->
        PageHrefs(r) \cup {HighestVersion(r, namespace, name, v).href :
                              namespace \in Namespaces, name \in Names, v \in Versions}]

LocationsOf(r) == Locations[r]

\* The repositories set is non-empty and does not contain r.
RepoExcluded(r) == cfg.repositories # {} /\ r \notin cfg.repositories

\* The collections set is empty or absent, or holds the name or the FQCN.
CollectionFilterPasses(col) ==
    \/ cfg.collections = {}
    \/ col.name \in cfg.collections
    \/ (col.namespace \o "." \o col.name) \in cfg.collections

\* The namespaces set is empty or absent, or holds the namespace.
NamespaceFilterPasses(col) ==
    cfg.namespaces = {} \/ col.namespace \in cfg.namespaces

PassesFilters(col) == CollectionFilterPasses(col) /\ NamespaceFilterPasses(col)

NoFilters == cfg.collections = {} /\ cfg.namespaces = {}

\* Entries of pagelog of one kind for element i of the current page.
Entries(kind, i) ==
    Cardinality({k \in 1..Len(pagelog) : pagelog[k].kind = kind /\ pagelog[k].idx = i})

Lookups(i) == Entries("lookup", i)
Lines(i) == Entries("line", i)

\* The last step made the highest_version lookup.
LookupMade == sent.location # PyNone /\ pagelog[Len(pagelog)].kind = "lookup"

\* The last step made an index request.
IndexFetched == sent.location # PyNone /\ pagelog[Len(pagelog)].kind = "index"

\* The iteration for element ci - 1 has just ended.
IterationEnded == pc = "item" /\ collection # NoCollection

Updated == strptime(version_info.updated_at)

Terminated == pc \in {"done", "failed", "crashed"}

-----------------------------------------------------------------------------
(* C1 *)

\* C1: a highest_version lookup is made for an element of a page if and only
\* if the element passes the collection filter and the namespace filter, and
\* then once: no element is looked up twice, a lookup goes to the href of an
\* element that passes, an element whose iteration has ended was looked up
\* exactly when it passes, and with no filter configured every element of a
\* page whose loop has ended was looked up once.
C1_LookupIffPassesFilters ==
    /\ \A i \in 1..result.len : Lookups(i) <= 1
    /\ pc = "lookup" => PassesFilters(collection) /\ Lookups(ci) = 0
    /\ pc \in {"window", "print"} => PassesFilters(collection) /\ Lookups(ci) = 1
    /\ LookupMade => /\ sent.location = collection.highest_version.href
                     /\ PassesFilters(collection)
                     /\ Lookups(ci) = 1
    /\ IterationEnded => (Lookups(ci - 1) = 1 <=> PassesFilters(collection))
    /\ IterationEnded /\ ~PassesFilters(collection) => Lookups(ci - 1) = 0
    /\ pc = "paginate" /\ NoFilters => \A i \in 1..result.len : Lookups(i) = 1

\* A page of MaxItems elements is done, the first element was filtered out
\* and never looked up, the last one passed and was looked up once.
C1_Witness ==
    /\ pc = "paginate"
    /\ result.len = MaxItems
    /\ Lookups(1) = 0
    /\ Lookups(MaxItems) = 1

-----------------------------------------------------------------------------
(* C2 *)

\* C2: for a repository the repositories set leaves out, no request (index
\* or lookup) is ever made and no line is ever printed; a repository it does
\* not leave out (the set empty or absent included) is scanned: the loop
\* does not pass it without having requested its index.
C2_RepositoryFilter ==
    /\ \A r \in RepoNames :
         RepoExcluded(r) =>
            /\ sent.location \notin LocationsOf(r)
            /\ printed.repo # r
            /\ pagelog # <<>> => pagelog[1].page \notin PageHrefs(r)
    /\ pc \notin {"repo", "done"} => ~RepoExcluded(collection_repo)
    /\ pc \in {"repo", "done"} /\ fi > 1 /\ ~RepoExcluded(Repos[fi - 1]) =>
            /\ pagelog # <<>>
            /\ pagelog[1].page \in PageHrefs(Repos[fi - 1])

\* The run is over, certified was left out and validated was scanned.
C2_Witness ==
    /\ pc = "done"
    /\ RepoExcluded("certified")
    /\ pagelog # <<>>
    /\ pagelog[1].page \in PageHrefs("validated")

-----------------------------------------------------------------------------
(* C3 *)

\* C3: at the end of a page, a next link that is null or missing ends the
\* pagination of the repository and the run goes on with the next
\* repository; a next link that is present makes the next index request go
\* to exactly that location.
C3_PaginationStopsOnNullOrMissing ==
    [][pc = "paginate" =>
          IF ~result.links.has_next \/ result.links.next = PyNone
          THEN pc' = "repo" /\ fi' = fi + 1 /\ exc' = PyNone
          ELSE pc' = "fetch" /\ href' = result.links.next /\ fi' = fi]_vars

-----------------------------------------------------------------------------
(* C4 *)

\* C4: a line is printed only for an update strictly later than the cutoff
\* now - timedelta days; an update at the cutoff or older prints nothing,
\* and the time-frame test passes over no update later than the cutoff.
C4_StrictTimeWindow ==
    /\ printed # NoLine => Updated > Cutoff(now)
    /\ pc = "print" => Updated > Cutoff(now)
    /\ IterationEnded /\ version_info # NoVersionInfo =>
            /\ (printed = NoLine <=> Updated <= Cutoff(now))
            /\ (Lines(ci - 1) = 0 <=> Updated <= Cutoff(now))

\* An update exactly at the cutoff was passed over.
C4_Witness ==
    /\ IterationEnded
    /\ version_info # NoVersionInfo
    /\ Updated = Cutoff(now)
    /\ printed = NoLine

-----------------------------------------------------------------------------
(* C5 *)

\* C5: every element that passed the filters and the time-frame test gets
\* its line printed and the loop goes on with the next element, whatever the
\* configuration, the absent one included.
C5_EveryMatchIsReported ==
    [][pc = "print" => printed' # NoLine /\ pc' = "item" /\ ci' = ci + 1]_vars

-----------------------------------------------------------------------------
(* C6 *)

ExpectedDateFormat ==
    IF cfg.output_date_format = PyNone THEN "%Y-%m-%d" ELSE cfg.output_date_format

\* The parts of a printed line that C6 and its amendment agree on.
LineOfElement ==
    /\ printed.repo = collection_repo
    /\ printed.fqcn = collection.namespace \o "." \o collection.name
    /\ printed.date.fmt = ExpectedDateFormat
    /\ printed.date.day = collection.updated_at.day
    /\ printed.date.tick \in {0, collection.updated_at.tick}

\* C6 as stated: a printed line carries the repository, namespace.name, the
\* version of the VersionInfo fetched for the element, and the element's own
\* updated_at as date.
C6_LineCarriesVersionInfoVersion ==
    printed # NoLine => LineOfElement /\ printed.version = version_info.version

\* C6 as amended: a printed line carries the repository, namespace.name, the
\* version of the element's highest_version entry on the index page, and the
\* element's own updated_at as date.
C6_LineCarriesIndexVersion ==
    printed # NoLine =>
        LineOfElement /\ printed.version = collection.highest_version.version

\* A line was printed for an element whose lookup answered another version
\* and another day than the index page holds.
C6_Witness ==
    /\ printed # NoLine
    /\ version_info.version # collection.highest_version.version
    /\ version_info.updated_at.day # collection.updated_at.day

-----------------------------------------------------------------------------
(* C7 *)

\* C7: a request that query_api fails on ends the run there: the run is in
\* its final state with that exception, and no step (no request, no line, no
\* further element, page or repository) follows.
C7_FailureAborts ==
    /\ sent.raised # PyNone => pc = "failed" /\ exc = sent.raised
    /\ pc = "failed" => sent.raised # PyNone /\ ~ENABLED Next

\* A lookup failed after the index page was fetched.
C7_Witness ==
    /\ pc = "failed"
    /\ LookupMade
    /\ sent.raised = "ConnectionError"

-----------------------------------------------------------------------------
(* C8 *)

ValidRequest ==
    /\ request.http_request_type \in HttpRequestType
    /\ request.location \notin {"", PyNone}

-----------------------------------------------------------------------------
(* C9 *)

\* The run is about to request a page a next link led to.
LinkFollowed == pc = "fetch" /\ pagelog # <<>>

-----------------------------------------------------------------------------
(* C10 *)

\* In every state: requests go to the repository the loop is at, validated
\* at position 1 and certified at position 2; the entries of a page start
\* with its one index request and go through the elements in page order,
\* the line of an element right after its lookup.
OrderInv ==
    /\ sent.location # PyNone => sent.location \in LocationsOf(collection_repo)
    /\ sent.location \in LocationsOf("validated") => fi = 1
    /\ sent.location \in LocationsOf("certified") => fi = 2
    /\ pagelog # <<>> =>
          /\ pagelog[1].kind = "index"
          /\ pc \in {"repo", "done"} \/ pagelog[1].page \in PageHrefs(collection_repo)
    /\ \A k \in 2..Len(pagelog) :
          /\ pagelog[k].kind # "index"
          /\ pagelog[k].page = pagelog[1].page
          /\ pagelog[k].idx \in 1..result.len
          /\ pagelog[k].idx >= pagelog[k - 1].idx
          /\ pagelog[k].kind = "lookup" => pagelog[k].idx > pagelog[k - 1].idx
          /\ pagelog[k].kind = "line" =>
                pagelog[k - 1] = [pagelog[k] EXCEPT !.kind = "lookup"]
    /\ pc \in {"lookup", "window", "print"} =>
          \A k \in 1..Len(pagelog) : pagelog[k].idx <= ci
    /\ pc = "paginate" => ci = result.len + 1

\* An index request goes to the initial location of the repository when it
\* is its first, else to the next link of the page before, all of whose
\* elements are done by then; it starts the entries of its page.
OrderOfPages ==
    /\ pc = "fetch" =>
          IF pagelog = <<>>
          THEN href = hrefs[collection_repo]
          ELSE /\ result.links.has_next
               /\ href = result.links.next
               /\ ci = result.len + 1
    /\ IndexFetched =>
          /\ sent.location = href
          /\ pagelog = <<[kind |-> "index", idx |-> 0, page |-> href]>>

\* C10: requests and lines come in one fixed order: repository after
\* repository (validated, then certified), inside a repository the index
\* pages in link order with one index request each, all lookups and lines of
\* a page before the next index request, and inside a page lookup and line
\* element by element in page order.
C10_SequentialOrder == OrderInv /\ OrderOfPages

\* On a linked page of certified, both elements were looked up and reported.
C10_Witness ==
    /\ pc = "paginate"
    /\ fi = 2
    /\ pagelog[1].page # hrefs["certified"]
    /\ Len(pagelog) = 1 + 2 * MaxItems
    /\ Lines(MaxItems) = 1

====
